---- MODULE Spec2Model ----
(***************************************************************************)
(* Gmail-Aggregator (src/app.py): the Flask handlers /unread, /latest,     *)
(* /delete_user and /oauth2callback over the tokens/ directory, and the    *)
(* per-account fetch helpers run on a per-call ThreadPoolExecutor.         *)
(*                                                                         *)
(* Python values are modelled structurally: a dict is a record/function,   *)
(* a list is a sequence, a str is a string (or a sequence of characters    *)
(* where it is parsed), and a call that may raise returns an outcome       *)
(* [raised, val] that the caller's try/except inspects.                    *)
(*                                                                         *)
(* src/app.py line 144 (a print inside oauth2callback) is dedented out of  *)
(* its try block; the handlers are modelled as their statements read, with *)
(* that line taken as part of the try body.                                *)
(***************************************************************************)
EXTENDS Integers, Sequences, FiniteSets, TLC

(* ------------------------------ bounds -------------------------------- *)

\* number of distinct Gmail accounts that can be enrolled
MaxAccounts == 2

\* largest number of messages the provider holds in one account's inbox
MaxMsgs == 3

\* number of /delete_user requests that can be in flight at once
MaxDeleters == 2

(* --------------------------- program constants ------------------------ *)

\* request.args.get("max", 7)
DefaultMax == 7

\* the literal of the "no accounts" response
NoAccountsMessage == "No authenticated accounts found. Please add an account first."

(* ------------------------------ universe ------------------------------ *)

EmailNames == <<"a@x", "b@x", "c@x", "d@x">>

Emails == {EmailNames[i] : i \in 1..MaxAccounts}

Deleters == 1..MaxDeleters

Modes == {"unread", "latest"}

\* what the provider answers for one account: the credential is refused
\* (auth_fail), getProfile fails (profile_fail), the message-list call fails
\* (list_fail), or everything up to the list call works (ok)
Healths == {"ok", "auth_fail", "profile_fail", "list_fail"}

\* what messages().get answers for one message: all headers and a snippet
\* (full), a detail with neither payload nor snippet (bare), or an API error
MsgKinds == {"full", "bare", "fail"}

RECURSIVE SeqsUpTo(_, _)
SeqsUpTo(S, n) ==
    IF n = 0 THEN {<<>>}
    ELSE LET shorter == SeqsUpTo(S, n - 1)
         IN shorter \cup {Append(s, x) : s \in {t \in shorter : Len(t) = n - 1}, x \in S}

Inboxes == SeqsUpTo(MsgKinds, MaxMsgs)

ProviderStates ==
    {[health |-> h, inbox |-> <<>>] : h \in Healths \ {"ok"}}
        \cup {[health |-> "ok", inbox |-> b] : b \in Inboxes}

(* -------------------------- Python primitives ------------------------- *)

\* a call that raised exception e / that returned v
Raise(e) == [raised |-> TRUE, val |-> e]

Return(v) == [raised |-> FALSE, val |-> v]

\* dict.get(k, default)
Get(d, k, default) == IF k \in DOMAIN d THEN d[k] ELSE default

DigitChars == <<"0", "1", "2", "3", "4", "5", "6", "7", "8", "9">>

IsDigit(c) == \E i \in 1..10 : DigitChars[i] = c

DigitVal(c) == (CHOOSE i \in 1..10 : DigitChars[i] = c) - 1

RECURSIVE DecimalValue(_)
DecimalValue(s) ==
    IF s = <<>> THEN 0
    ELSE 10 * DecimalValue(SubSeq(s, 1, Len(s) - 1)) + DigitVal(s[Len(s)])

\* int(s) for a str s, given as its sequence of characters (unsigned decimal
\* digits or other characters; the empty string is not a number)
IntOfStr(s) ==
    IF s # <<>> /\ \A i \in 1..Len(s) : IsDigit(s[i])
    THEN Return(DecimalValue(s))
    ELSE Raise("ValueError")

\* int(request.args.get("max", 7)): the default is already the int 7
ParseMax(args) ==
    IF "max" \in DOMAIN args THEN IntOfStr(args["max"]) ELSE Return(DefaultMax)

Min(a, b) == IF a <= b THEN a ELSE b

(* --------------------------- tokens directory ------------------------- *)

\* TOKENS_DIR / f"{email}.json"
TokenFileName(email) == email \o ".json"

\* a path "tokens/<name>"
TokenPath(name) == [dir |-> "tokens", name |-> name]

\* os.path.basename
Basename(path) == path.name

\* is a file of that name in the directory listing dir
Exists(dir, name) == \E i \in 1..Len(dir) : dir[i].name = name

FileOf(dir, name) == dir[CHOOSE i \in 1..Len(dir) : dir[i].name = name]

\* glob.glob("tokens/*.json"): the paths, in directory order
Glob(dir) == [i \in 1..Len(dir) |-> TokenPath(dir[i].name)]

\* the listing with the file of that name removed (unlink)
RECURSIVE Unlinked(_, _)
Unlinked(dir, name) ==
    IF dir = <<>> THEN <<>>
    ELSE IF Head(dir).name = name THEN Unlinked(Tail(dir), name)
    ELSE <<Head(dir)>> \o Unlinked(Tail(dir), name)

\* the listing with a new file put at position p
InsertAt(dir, p, f) == SubSeq(dir, 1, p - 1) \o <<f>> \o SubSeq(dir, p, Len(dir))

\* every listing of files of distinct accounts
RECURSIVE Listings(_)
Listings(E) ==
    {<<>>} \cup UNION {{<<[name |-> TokenFileName(e), cred |-> e]>> \o l : l \in Listings(E \ {e})}
                        : e \in E}

(* ------------------------------ state --------------------------------- *)

VARIABLES
    tokens,        \* the tokens/ directory: its files [name, cred], in listing order
    provider,      \* the remote mail provider's answers, per account
    callpc,        \* position of the /unread or /latest handler
    mode,          \* "unread" or "latest": which handler is running
    args,          \* request.args of the aggregate request
    max_per,       \* the handler's max_per
    token_paths,   \* the handler's token_paths
    max_workers,   \* the executor's max_workers
    futures,       \* the handler's futures: [st, outcome] per submitted task
    data,          \* the handler's data["accounts"]
    response,      \* the HTTP response of the aggregate request
    deleters,      \* the /delete_user requests: [pc, email, status] per request slot
    previous       \* the response a repeated aggregate request got the first time

vars == <<tokens, provider, callpc, mode, args, max_per, token_paths, max_workers,
          futures, data, response, deleters, previous>>

callVars == <<callpc, mode, args, max_per, token_paths, max_workers, futures, data, response>>

(* ------------------------- gmail_client and API ----------------------- *)

\* gmail_client.build_service_from_token: reads the token file and builds an
\* authorized service for the account whose credential the file holds
build_service_from_token(dir, prov, token_path) ==
    IF ~Exists(dir, Basename(token_path)) THEN Raise("FileNotFoundError")
    ELSE LET account == FileOf(dir, Basename(token_path)).cred
         IN IF prov[account].health = "auth_fail" THEN Raise("RefreshError")
            ELSE Return([account |-> account])

\* gmail_client.get_account_email: the emailAddress of the account's profile
get_account_email(prov, service) ==
    IF prov[service.account].health = "profile_fail" THEN Raise("HttpError getProfile")
    ELSE Return(service.account)

\* ids of the first n messages of an inbox
Listed(inbox, n) == [i \in 1..Min(n, Len(inbox)) |-> [id |-> i]]

\* gmail_client.fetch_unread: the summaries of at most max_results unread messages
fetch_unread(prov, service, max_results) ==
    IF prov[service.account].health = "list_fail" THEN Raise("HttpError list")
    ELSE Return(Listed(prov[service.account].inbox, max_results))

\* service.users().messages().list(userId="me", labelIds=["INBOX"],
\* maxResults=max_per).execute(): no "messages" key when nothing is listed
messages_list(prov, service, maxResults) ==
    IF prov[service.account].health = "list_fail" THEN Raise("HttpError list")
    ELSE LET ids == Listed(prov[service.account].inbox, maxResults)
         IN IF ids = <<>> THEN Return([resultSizeEstimate |-> 0])
            ELSE Return([messages |-> ids, resultSizeEstimate |-> Len(ids)])

\* the detail of message id of an account when the provider answers in full
FullDetail(id) ==
    [id |-> id,
     payload |-> [headers |-> <<[name |-> "Subject", value |-> "Subject " \o ToString(id)],
                                [name |-> "From", value |-> "From " \o ToString(id)],
                                [name |-> "Date", value |-> "Date " \o ToString(id)],
                                [name |-> "From", value |-> "Resent " \o ToString(id)]>>],
     snippet |-> "Snippet " \o ToString(id)]

\* service.users().messages().get(userId="me", id=id).execute()
messages_get(prov, service, id) ==
    LET kind == prov[service.account].inbox[id]
    IN IF kind = "fail" THEN Raise("HttpError get")
       ELSE IF kind = "full" THEN Return(FullDetail(id))
       ELSE Return([id |-> id])

(* --------------------------- per-account fetch ------------------------ *)

\* the except clause of both helpers
ErrorEntry(token_path, e) ==
    [email |-> Basename(token_path), error |-> e, messages |-> <<>>]

\* (mutant) the service is built before the try block
fetch_account_unread_BuildOutsideTry(dir, prov, token_path, max) ==
    LET service == build_service_from_token(dir, prov, token_path)
    IN IF service.raised THEN service
       ELSE LET email_addr == get_account_email(prov, service.val)
            IN IF email_addr.raised THEN Return(ErrorEntry(token_path, email_addr.val))
               ELSE LET mails == fetch_unread(prov, service.val, max)
                    IN IF mails.raised THEN Return(ErrorEntry(token_path, mails.val))
                       ELSE Return([email |-> email_addr.val,
                                    count |-> Len(mails.val),
                                    messages |-> mails.val])

\* def fetch_account_unread(token_path, max_per), run against the directory
\* and the provider as they are when the task runs
fetch_account_unread(dir, prov, token_path, max) ==
    LET service == build_service_from_token(dir, prov, token_path)
    IN IF service.raised THEN Return(ErrorEntry(token_path, service.val))
       ELSE LET email_addr == get_account_email(prov, service.val)
            IN IF email_addr.raised THEN Return(ErrorEntry(token_path, email_addr.val))
               ELSE LET mails == fetch_unread(prov, service.val, max)
                    IN IF mails.raised THEN Return(ErrorEntry(token_path, mails.val))
                       ELSE Return([email |-> email_addr.val,
                                    count |-> Len(mails.val),
                                    messages |-> mails.val])

\* next((h["value"] for h in headers if h["name"] == name), "")
HeaderValue(headers, name) ==
    IF \E i \in 1..Len(headers) : headers[i].name = name
    THEN headers[CHOOSE i \in 1..Len(headers) :
                    /\ headers[i].name = name
                    /\ \A j \in 1..(i - 1) : headers[j].name # name].value
    ELSE ""

\* the msg_data dict built from one message detail
MsgData(msg_detail) ==
    LET headers == Get(Get(msg_detail, "payload", <<>>), "headers", <<>>)
    IN [from |-> HeaderValue(headers, "From"),
        subject |-> HeaderValue(headers, "Subject"),
        date |-> HeaderValue(headers, "Date"),
        snippet |-> Get(msg_detail, "snippet", "")]

\* (mutant) the projected message is put at the front of the list
LoopStep_Prepends(prov, service, msg, acc) ==
    LET msg_detail == messages_get(prov, service, msg.id)
    IN IF msg_detail.raised
       THEN [acc EXCEPT !.failed_messages = @ + 1]
       ELSE [acc EXCEPT !.messages = <<MsgData(msg_detail.val)>> \o @]

\* one iteration of the for loop over the listed messages: the inner
\* try/except around the detail fetch and the projection
LoopStep(prov, service, msg, acc) ==
    LET msg_detail == messages_get(prov, service, msg.id)
    IN IF msg_detail.raised
       THEN [acc EXCEPT !.failed_messages = @ + 1]
       ELSE [acc EXCEPT !.messages = Append(@, MsgData(msg_detail.val))]

\* (mutant) the except clause of the loop ends the loop (break for continue)
RECURSIVE LatestLoop_BreakOnFailure(_, _, _, _)
LatestLoop_BreakOnFailure(prov, service, listed, acc) ==
    IF listed = <<>> THEN acc
    ELSE IF messages_get(prov, service, Head(listed).id).raised
         THEN [acc EXCEPT !.failed_messages = @ + 1]
         ELSE LatestLoop_BreakOnFailure(prov, service, Tail(listed),
                                        LoopStep(prov, service, Head(listed), acc))

\* the for loop: for msg in results.get("messages", [])
RECURSIVE LatestLoop(_, _, _, _)
LatestLoop(prov, service, listed, acc) ==
    IF listed = <<>> THEN acc
    ELSE LatestLoop(prov, service, Tail(listed), LoopStep(prov, service, Head(listed), acc))

\* f"Failed to load {failed_messages} messages due to API errors"
WarningText(failed_messages) ==
    "Failed to load " \o ToString(failed_messages) \o " messages due to API errors"

\* (mutant) count is the number of listed messages, failed ones included
LatestResult_CountsListed(email_addr, loop) ==
    LET result == [email |-> email_addr,
                   count |-> Len(loop.messages) + loop.failed_messages,
                   messages |-> loop.messages]
    IN IF loop.failed_messages > 0
       THEN result @@ ("warning" :> WarningText(loop.failed_messages))
       ELSE result

\* the result dict of fetch_account_latest after the loop
LatestResult(email_addr, loop) ==
    LET result == [email |-> email_addr,
                   count |-> Len(loop.messages),
                   messages |-> loop.messages]
    IN IF loop.failed_messages > 0
       THEN result @@ ("warning" :> WarningText(loop.failed_messages))
       ELSE result

\* (mutant) the list call is made outside the try block
fetch_account_latest_NoExcept(dir, prov, token_path, max) ==
    LET service == build_service_from_token(dir, prov, token_path)
    IN IF service.raised THEN Return(ErrorEntry(token_path, service.val))
       ELSE LET email_addr == get_account_email(prov, service.val)
            IN IF email_addr.raised THEN Return(ErrorEntry(token_path, email_addr.val))
               ELSE LET results == messages_list(prov, service.val, max)
                    IN IF results.raised THEN results
                       ELSE Return(LatestResult(
                                email_addr.val,
                                LatestLoop(prov, service.val,
                                           Get(results.val, "messages", <<>>),
                                           [messages |-> <<>>, failed_messages |-> 0])))

\* def fetch_account_latest(token_path, max_per)
fetch_account_latest(dir, prov, token_path, max) ==
    LET service == build_service_from_token(dir, prov, token_path)
    IN IF service.raised THEN Return(ErrorEntry(token_path, service.val))
       ELSE LET email_addr == get_account_email(prov, service.val)
            IN IF email_addr.raised THEN Return(ErrorEntry(token_path, email_addr.val))
               ELSE LET results == messages_list(prov, service.val, max)
                    IN IF results.raised THEN Return(ErrorEntry(token_path, results.val))
                       ELSE Return(LatestResult(
                                email_addr.val,
                                LatestLoop(prov, service.val,
                                           Get(results.val, "messages", <<>>),
                                           [messages |-> <<>>, failed_messages |-> 0])))

\* the helper the handler of that mode submits
FetchAccount(m, dir, prov, token_path, max) ==
    IF m = "unread" THEN fetch_account_unread(dir, prov, token_path, max)
    ELSE fetch_account_latest(dir, prov, token_path, max)

(* --------------------------- /unread and /latest ---------------------- *)

\* None
PyNone == "<None>"

\* the result slot of a future whose task has not finished
NoOutcome == [raised |-> FALSE, val |-> [pending |-> TRUE]]

\* no response sent yet
NoResponse == [status |-> 0, body |-> [pending |-> TRUE]]

\* the running aggregate request is not a repetition of the one before it
NoPrevious == [none |-> TRUE]

NoFutures == <<>>

\* a Flask response: jsonify(body) with a status, or the 500 page Flask
\* sends when the view function raised
Json(status, body) == [status |-> status, body |-> body]

ServerError == [status |-> 500, body |-> [error |-> "Internal Server Error"]]

\* (mutant) a pool of one worker whatever the number of accounts
ExecutorWorkers_Single(paths) == Min(Len(paths), 1)

\* ThreadPoolExecutor(max_workers=len(token_paths))
ExecutorWorkers(paths) == Len(paths)

\* (mutant) the comprehension misses the last path
Submitted_DropsLast(paths) ==
    [i \in 1..(Len(paths) - 1) |-> [st |-> "queued", outcome |-> NoOutcome]]

\* [executor.submit(...) for tp in token_paths]: one pending future per path
Submitted(paths) == [i \in 1..Len(paths) |-> [st |-> "queued", outcome |-> NoOutcome]]

\* worker threads of the executor that are running a task
Busy(fs) == Cardinality({i \in 1..Len(fs) : fs[i].st = "running"})

\* (mutant) the result slot is read without waiting for the task
ResultReady_NoWait(f) == TRUE

\* future.result() can return: the task has finished
ResultReady(f) == f.st = "done"

\* leaving the with block: executor.shutdown(wait=True) joins every worker
ExecutorJoined(fs) == \A i \in 1..Len(fs) : fs[i].st = "done"

\* the request reaches unread() or latest(): max_per = int(request.args.get("max", 7)),
\* data = {"accounts": []}; a ValueError leaves the view function
AggStart(m, a) ==
    /\ callpc \in {"idle", "returned", "raised"}
    /\ mode' = m
    /\ args' = a
    /\ LET parsed == ParseMax(a)
       IN IF parsed.raised
          THEN /\ callpc' = "raised"
               /\ max_per' = 0
               /\ response' = ServerError
          ELSE /\ callpc' = "glob"
               /\ max_per' = parsed.val
               /\ response' = NoResponse
    /\ data' = <<>>
    /\ token_paths' = <<>>
    /\ max_workers' = 0
    /\ futures' = NoFutures
    /\ UNCHANGED <<tokens, provider, deleters>>

\* a request for mode m with query string a arrives
AggBegin(m, a) ==
    /\ AggStart(m, a)
    /\ previous' = NoPrevious

\* the client sends the request it has just been answered once more
AggRepeat ==
    /\ callpc \in {"returned", "raised"}
    /\ AggStart(mode, args)
    /\ previous' = [response |-> response]

\* (mutant) no early return: ThreadPoolExecutor(max_workers=0) raises ValueError
AggGlob_NoEmptyCheck ==
    /\ callpc = "glob"
    /\ token_paths' = Glob(tokens)
    /\ IF token_paths' = <<>>
       THEN /\ response' = ServerError
            /\ callpc' = "raised"
            /\ UNCHANGED <<max_workers, futures>>
       ELSE /\ max_workers' = ExecutorWorkers(token_paths')
            /\ futures' = Submitted(token_paths')
            /\ callpc' = "collect"
            /\ UNCHANGED response
    /\ UNCHANGED <<tokens, provider, mode, args, max_per, data, deleters, previous>>

\* token_paths = glob.glob("tokens/*.json"); the early return when it is
\* empty; otherwise the executor is created and one task per path submitted
AggGlob ==
    /\ callpc = "glob"
    /\ token_paths' = Glob(tokens)
    /\ IF token_paths' = <<>>
       THEN /\ response' = Json(200, [accounts |-> <<>>, message |-> NoAccountsMessage])
            /\ callpc' = "returned"
            /\ UNCHANGED <<max_workers, futures>>
       ELSE /\ max_workers' = ExecutorWorkers(token_paths')
            /\ futures' = Submitted(token_paths')
            /\ callpc' = "collect"
            /\ UNCHANGED response
    /\ UNCHANGED <<tokens, provider, mode, args, max_per, data, deleters, previous>>

\* a worker thread takes the oldest queued task off the executor's work queue
TaskStart(i) ==
    /\ i \in 1..Len(futures)
    /\ futures[i].st = "queued"
    /\ \A j \in 1..(i - 1) : futures[j].st # "queued"
    /\ Busy(futures) < max_workers
    /\ futures' = [futures EXCEPT ![i].st = "running"]
    /\ UNCHANGED <<tokens, provider, callpc, mode, args, max_per, token_paths,
                   max_workers, data, response, deleters, previous>>

\* (mutant) the tasks are submitted over the paths in reverse
TaskRun_Reversed(i) ==
    /\ i \in 1..Len(futures)
    /\ futures[i].st = "running"
    /\ futures' = [futures EXCEPT ![i] =
                      [st |-> "done",
                       outcome |-> FetchAccount(mode, tokens, provider,
                                                token_paths[Len(token_paths) + 1 - i], max_per)]]
    /\ UNCHANGED <<tokens, provider, callpc, mode, args, max_per, token_paths,
                   max_workers, data, response, deleters, previous>>

\* (mutant) a task whose fetch failed removes the credential file it was given
TaskRun_RemovesBadToken(i) ==
    /\ i \in 1..Len(futures)
    /\ futures[i].st = "running"
    /\ LET outcome == FetchAccount(mode, tokens, provider, token_paths[i], max_per)
       IN /\ futures' = [futures EXCEPT ![i] = [st |-> "done", outcome |-> outcome]]
          /\ tokens' = IF "error" \in DOMAIN outcome.val
                       THEN Unlinked(tokens, Basename(token_paths[i]))
                       ELSE tokens
    /\ UNCHANGED <<provider, callpc, mode, args, max_per, token_paths,
                   max_workers, data, response, deleters, previous>>

\* the task's helper runs to its return (or to the exception it lets out)
TaskRun(i) ==
    /\ i \in 1..Len(futures)
    /\ futures[i].st = "running"
    /\ futures' = [futures EXCEPT ![i] =
                      [st |-> "done",
                       outcome |-> FetchAccount(mode, tokens, provider, token_paths[i], max_per)]]
    /\ UNCHANGED <<tokens, provider, callpc, mode, args, max_per, token_paths,
                   max_workers, data, response, deleters, previous>>

\* (mutant) the results are taken as the tasks complete (as_completed)
Collect_AsCompleted ==
    /\ callpc = "collect"
    /\ Len(data) < Len(futures)
    /\ \E k \in 1..Len(futures) :
          /\ ResultReady(futures[k])
          /\ IF futures[k].outcome.raised
             THEN callpc' = "raising" /\ UNCHANGED data
             ELSE /\ \A j \in 1..Len(data) : data[j] # futures[k].outcome.val
                  /\ data' = Append(data, futures[k].outcome.val)
                  /\ UNCHANGED callpc
    /\ UNCHANGED <<tokens, provider, mode, args, max_per, token_paths, max_workers,
                   futures, response, deleters, previous>>

\* for future in futures: data["accounts"].append(future.result());
\* result() re-raises what the task raised
Collect ==
    /\ callpc = "collect"
    /\ Len(data) < Len(futures)
    /\ LET future == futures[Len(data) + 1]
       IN /\ ResultReady(future)
          /\ IF future.outcome.raised
             THEN callpc' = "raising" /\ UNCHANGED data
             ELSE data' = Append(data, future.outcome.val) /\ UNCHANGED callpc
    /\ UNCHANGED <<tokens, provider, mode, args, max_per, token_paths, max_workers,
                   futures, response, deleters, previous>>

\* the with block is left (the executor joins its workers), then
\* return jsonify(data), or the exception leaves the view function
AggReturn ==
    /\ \/ callpc = "collect" /\ Len(data) = Len(futures)
       \/ callpc = "raising"
    /\ ExecutorJoined(futures)
    /\ IF callpc = "raising"
       THEN callpc' = "raised" /\ response' = ServerError
       ELSE callpc' = "returned" /\ response' = Json(200, [accounts |-> data])
    /\ UNCHANGED <<tokens, provider, mode, args, max_per, token_paths, max_workers,
                   futures, data, deleters, previous>>

(* ------------------------------ /delete_user -------------------------- *)

\* data = request.get_json(); email = data.get("email"): without a JSON body
\* data is None, which has no get
EmailOf(body) ==
    IF ~body.has_json THEN Raise("AttributeError")
    ELSE Return(Get(body.json, "email", PyNone))

\* recorded as the email of a request that had no JSON body
NoBody == "<no body>"

\* not email
Falsy(email) == email = PyNone \/ email = ""

\* (mutant) delete_user without the token_path.exists() test
DeleteBegin_NoExistsCheck(d, body) ==
    /\ deleters[d].pc # "checked"
    /\ LET email == EmailOf(body)
       IN deleters' = [deleters EXCEPT ![d] =
            IF email.raised THEN [pc |-> "done", email |-> NoBody, status |-> 500]
            ELSE IF Falsy(email.val) THEN [pc |-> "done", email |-> email.val, status |-> 400]
            ELSE [pc |-> "checked", email |-> email.val, status |-> 0]]
    /\ UNCHANGED <<tokens, provider, callVars, previous>>

\* delete_user up to the token_path.exists() test
DeleteBegin(d, body) ==
    /\ deleters[d].pc # "checked"
    /\ LET email == EmailOf(body)
       IN deleters' = [deleters EXCEPT ![d] =
            IF email.raised THEN [pc |-> "done", email |-> NoBody, status |-> 500]
            ELSE IF Falsy(email.val) THEN [pc |-> "done", email |-> email.val, status |-> 400]
            ELSE IF ~Exists(tokens, TokenFileName(email.val))
                 THEN [pc |-> "done", email |-> email.val, status |-> 404]
            ELSE [pc |-> "checked", email |-> email.val, status |-> 0]]
    /\ UNCHANGED <<tokens, provider, callVars, previous>>

\* token_path.unlink() and the success response; unlink raises
\* FileNotFoundError when the file is gone, which the except turns into 500
DeleteUnlink(d) ==
    /\ deleters[d].pc = "checked"
    /\ LET name == TokenFileName(deleters[d].email)
       IN IF Exists(tokens, name)
          THEN /\ tokens' = Unlinked(tokens, name)
               /\ deleters' = [deleters EXCEPT ![d].pc = "done", ![d].status = 200]
          ELSE /\ UNCHANGED tokens
               /\ deleters' = [deleters EXCEPT ![d].pc = "done", ![d].status = 500]
    /\ UNCHANGED <<provider, callVars, previous>>

(* ----------------------------- /oauth2callback ------------------------ *)

\* (mutant) every write adds a file to the listing
Written_AlwaysNew(dir, name, cred) ==
    {InsertAt(dir, p, [name |-> name, cred |-> cred]) : p \in 1..(Len(dir) + 1)}

\* open(token_path, "w"): an existing file keeps its place in the listing and
\* gets the new content, a new file appears somewhere in the listing
Written(dir, name, cred) ==
    IF Exists(dir, name)
    THEN {[i \in 1..Len(dir) |-> IF dir[i].name = name THEN [name |-> name, cred |-> cred]
                                  ELSE dir[i]]}
    ELSE {InsertAt(dir, p, [name |-> name, cred |-> cred]) : p \in 1..(Len(dir) + 1)}

\* oauth2callback: profile is the outcome of the token exchange and the
\* getProfile call; on success the credential is written to tokens/<email>.json
OAuth2Callback(profile) ==
    /\ IF profile.raised THEN UNCHANGED tokens
       ELSE tokens' \in Written(tokens, TokenFileName(profile.val), profile.val)
    /\ UNCHANGED <<provider, callVars, deleters, previous>>

(* ------------------------------ specification ------------------------- *)

\* the max query parameter: omitted, or a string given by its characters
ArgsSet == {<<>>, [max |-> <<"1">>], [max |-> <<"x">>]}

\* JSON bodies of a delete request
DeleteBodies ==
    {[has_json |-> FALSE, json |-> [other |-> "x"]],
     [has_json |-> TRUE, json |-> [other |-> "x"]],
     [has_json |-> TRUE, json |-> [email |-> ""]]}
        \cup {[has_json |-> TRUE, json |-> [email |-> e]] : e \in Emails}

\* outcomes of the OAuth exchange
Profiles == {Raise("OAuthError")} \cup {Return(e) : e \in Emails}

\* the provider state of a healthy account whose inbox holds MaxMsgs
\* messages, the first readable and the others failing their detail fetch
StandardOk ==
    [health |-> "ok", inbox |-> [i \in 1..MaxMsgs |-> IF i = 1 THEN "full" ELSE "fail"]]

\* one provider state per way an account can fail, and one healthy state
CoreStates ==
    {[health |-> h, inbox |-> <<>>] : h \in Healths \ {"ok"}} \cup {StandardOk}

\* no aggregate request and no delete request is being served
Quiet ==
    /\ callpc = "idle"
    /\ mode = "unread"
    /\ args = <<>>
    /\ max_per = 0
    /\ token_paths = <<>>
    /\ max_workers = 0
    /\ futures = NoFutures
    /\ data = <<>>
    /\ response = NoResponse
    /\ deleters = [d \in Deleters |-> [pc |-> "idle", email |-> PyNone, status |-> 0]]
    /\ previous = NoPrevious

\* any set of enrolled accounts, each healthy or failing its list call
Init ==
    /\ tokens \in Listings(Emails)
    /\ provider \in [Emails -> {StandardOk, [health |-> "list_fail", inbox |-> <<>>]}]
    /\ Quiet

\* the steps of one /unread or /latest request and of its tasks, the
\* request's query string drawn from A
AggNext(A) ==
    \/ \E m \in Modes, a \in A : AggBegin(m, a)
    \/ AggGlob
    \/ \E i \in 1..MaxAccounts : TaskStart(i)
    \/ \E i \in 1..MaxAccounts : TaskRun(i)
    \/ Collect
    \/ AggReturn

\* the aggregate requests, served one after the other, while accounts are
\* enrolled and one delete request at a time is served
Next ==
    \/ AggNext({<<>>, [max |-> <<"x">>]})
    \/ \E body \in DeleteBodies : DeleteBegin(1, body)
    \/ DeleteUnlink(1)
    \/ \E profile \in Profiles : OAuth2Callback(profile)

Spec == Init /\ [][Next]_vars

\* The aggregate requests alone, over a directory nothing writes to.  The
\* handler's thread and the executor's idle workers are scheduled (weak
\* fairness of Collect, AggReturn and TaskStart); a task's remote calls may
\* never return, so TaskRun has no fairness.
AggFairness ==
    /\ WF_vars(Collect)
    /\ WF_vars(AggReturn)
    /\ \A i \in 1..MaxAccounts : WF_vars(TaskStart(i))

\* any set of enrolled accounts, each failing in one of the ways or healthy
AggInit ==
    /\ tokens \in Listings(Emails)
    /\ provider \in [Emails -> CoreStates]
    /\ Quiet

FairAggSpec == AggInit /\ [][AggNext(ArgsSet)]_vars /\ AggFairness

\* One enrolled account, with every provider state it can have: the inputs
\* of fetch_account_unread and fetch_account_latest
FetchInit ==
    /\ \E e \in Emails, ps \in ProviderStates :
          /\ tokens = <<[name |-> TokenFileName(e), cred |-> e]>>
          /\ provider = [x \in Emails |-> IF x = e THEN ps ELSE StandardOk]
    /\ Quiet

FetchSpec == FetchInit /\ [][AggNext(ArgsSet)]_vars

\* The aggregate requests over a directory nothing writes to and a provider
\* whose answers do not change, each request possibly sent a second time
RepeatNext ==
    \/ AggNext(ArgsSet)
    \/ AggRepeat

RepeatSpec == AggInit /\ [][RepeatNext]_vars

\* The delete requests, MaxDeleters of them in flight, and enrollments
DeleteInit ==
    /\ tokens \in Listings(Emails)
    /\ provider = [e \in Emails |-> StandardOk]
    /\ Quiet

DeleteNext ==
    \/ \E d \in Deleters, body \in DeleteBodies : DeleteBegin(d, body)
    \/ \E d \in Deleters : DeleteUnlink(d)
    \/ \E profile \in Profiles : OAuth2Callback(profile)

DeleteSpec == DeleteInit /\ [][DeleteNext]_vars

(* ============================== claims ================================ *)

\* the aggregate request has sent jsonify(data) after enumerating accounts
Answered == callpc = "returned" /\ token_paths # <<>>

\* the entries of the response
Accounts == response.body.accounts

IsError(entry) == "error" \in DOMAIN entry

\* the account whose token file a path names
AccountOfPath(path) == CHOOSE e \in Emails : TokenFileName(e) = Basename(path)

\* the entry speaks of the credential file at that path: it carries the
\* file's name (error entries) or the email the file is named after
EntryIsFor(entry, path) ==
    IF IsError(entry) THEN entry.email = Basename(path)
    ELSE TokenFileName(entry.email) = Basename(path)

\* C1: an aggregate call that enumerated a nonempty set of credential files
\* does not end in an exception, and its accounts list has exactly one entry
\* per enumerated file: as many entries as paths, the i-th for the i-th path.
C1_OneEntryPerAccount ==
    /\ token_paths # <<>> => callpc \notin {"raising", "raised"}
    /\ Answered =>
          /\ response.status = 200
          /\ Len(Accounts) = Len(token_paths)
          /\ \A i \in 1..Len(token_paths) : EntryIsFor(Accounts[i], token_paths[i])
          /\ \A i, j \in 1..Len(Accounts) :
                i # j => Basename(token_paths[i]) # Basename(token_paths[j])

\* a response over MaxAccounts files that mixes a failed and a healthy account
C1_Witness ==
    /\ Answered
    /\ Len(Accounts) = MaxAccounts
    /\ \E i, j \in 1..Len(Accounts) : IsError(Accounts[i]) /\ ~IsError(Accounts[j])

\* the provider with every account but e healthy
OthersHealthy(e) == [x \in Emails |-> IF x = e THEN provider[e] ELSE StandardOk]

\* the directory holding only the credential file of e
OnlyFileOf(e) == <<[name |-> TokenFileName(e), cred |-> e]>>

\* C2: failure isolation.  The answered call has status 200; an account whose
\* provider calls fail has an entry with an error field and no messages; an
\* entry without error is the entry its account gets when it is fetched alone
\* with every other account healthy.
C2_FailureIsolation ==
    /\ token_paths # <<>> => callpc \notin {"raising", "raised"}
    /\ Answered =>
          /\ response.status = 200
          /\ Len(Accounts) = Len(token_paths)
          /\ \A i \in 1..Len(Accounts) :
                LET e == AccountOfPath(token_paths[i])
                    entry == Accounts[i]
                IN /\ provider[e].health # "ok" => IsError(entry)
                   /\ IsError(entry) =>
                         /\ entry.messages = <<>>
                         /\ provider[e].health # "ok" \/ entry.error = "FileNotFoundError"
                   /\ ~IsError(entry) =>
                         entry = FetchAccount(mode, OnlyFileOf(e), OthersHealthy(e),
                                              token_paths[i], max_per).val

\* a response where one account failed at the provider and another one
\* delivered messages
C2_Witness ==
    /\ Answered
    /\ \E i, j \in 1..Len(Accounts) :
          /\ IsError(Accounts[i])
          /\ provider[AccountOfPath(token_paths[i])].health # "ok"
          /\ ~IsError(Accounts[j])
          /\ Accounts[j].messages # <<>>

\* how many messages the list call of account e returns under limit n, and
\* how many of those fail their detail fetch
ListedCount(e, n) == Min(n, Len(provider[e].inbox))

FailedCount(e, n) ==
    Cardinality({i \in 1..ListedCount(e, n) : provider[e].inbox[i] = "fail"})

\* C3: in Latest mode an account whose list call succeeds with k listed
\* messages of which f detail fetches fail has an entry without error, with
\* count k - f and k - f messages, and with a warning exactly when f > 0, whose
\* text is "Failed to load f messages due to API errors".
C3_PartialFailures ==
    Answered /\ mode = "latest" =>
        \A i \in 1..Len(Accounts) :
            LET e == AccountOfPath(token_paths[i])
                entry == Accounts[i]
                k == ListedCount(e, max_per)
                f == FailedCount(e, max_per)
            IN provider[e].health = "ok" /\ Exists(tokens, Basename(token_paths[i])) =>
                  /\ ~IsError(entry)
                  /\ entry.count = k - f
                  /\ Len(entry.messages) = k - f
                  /\ ("warning" \in DOMAIN entry) <=> (f > 0)
                  /\ f = 1 => entry.warning = "Failed to load 1 messages due to API errors"
                  /\ f = 2 => entry.warning = "Failed to load 2 messages due to API errors"
                  /\ f > 0 => entry.warning
                                 = "Failed to load " \o ToString(f) \o " messages due to API errors"

\* an entry of a Latest call whose first detail fetch failed and whose second
\* one was loaded
C3_Witness ==
    /\ Answered
    /\ mode = "latest"
    /\ LET e == AccountOfPath(token_paths[1])
       IN /\ ListedCount(e, max_per) >= 2
          /\ provider[e].inbox[1] = "fail"
          /\ provider[e].inbox[2] # "fail"
          /\ Accounts[1].count = 1
          /\ "warning" \in DOMAIN Accounts[1]

\* the max parameter is omitted, or its value is not a decimal number
OmittedOrNonNumeric(a) ==
    \/ "max" \notin DOMAIN a
    \/ a["max"] = <<>>
    \/ \E i \in 1..Len(a["max"]) : ~IsDigit(a["max"][i])

\* C4: a call whose max parameter is omitted or not numeric does not raise
\* and runs with limit 7.
C4_DefaultLimit ==
    callpc # "idle" /\ OmittedOrNonNumeric(args) =>
        /\ callpc # "raised"
        /\ max_per = 7
        /\ callpc = "returned" => response.status = 200

\* C5 as claimed: the enumeration step that finds no credential file answers
\* {accounts: [], message: "No authenticated accounts found."} without
\* submitting a task.
C5_NoAccountsAsClaimed ==
    [][callpc = "glob" /\ callpc' # "glob" /\ tokens = <<>> =>
          /\ callpc' = "returned"
          /\ response' = [status |-> 200,
                          body |-> [accounts |-> <<>>,
                                    message |-> "No authenticated accounts found."]]
          /\ futures' = <<>>]_vars

\* C5, amended: the enumeration step that finds no credential file answers
\* status 200 with accounts [] and the message "No authenticated accounts
\* found. Please add an account first.", and submits no task.
C5_NoAccounts ==
    [][callpc = "glob" /\ callpc' # "glob" /\ tokens = <<>> =>
          /\ callpc' = "returned"
          /\ response' = [status |-> 200,
                          body |-> [accounts |-> <<>>,
                                    message |-> "No authenticated accounts found. Please add an account first."]]
          /\ futures' = <<>>
          /\ max_workers' = 0]_vars

\* a call answered over an empty tokens directory
C5_Witness ==
    /\ callpc = "returned"
    /\ tokens = <<>>
    /\ token_paths = <<>>
    /\ response.status = 200
    /\ response.body.accounts = <<>>
    /\ futures = <<>>

\* C6: the error entry of a failed account carries the resolved email address
\* when the failure came after the email was resolved (the list call failed),
\* and the credential's file name when it came before.
C6_BestKnownIdentifier ==
    Answered =>
        \A i \in 1..Len(Accounts) :
            IsError(Accounts[i]) =>
                Accounts[i].email =
                    IF Accounts[i].error = "HttpError list"
                    THEN AccountOfPath(token_paths[i])
                    ELSE Basename(token_paths[i])

\* the files of a listing, as a set
Files(dir) == {dir[i] : i \in 1..Len(dir)}

\* delete request d takes a step
DeleteStep(d) == deleters'[d] # deleters[d]

\* C7: a delete request for an email without stored credential is answered
\* 404 and leaves the tokens directory as it is; a delete request for an email
\* with a stored credential removes that credential's file and no other; no
\* step of a delete request changes the directory in any other way.
C7_DeleteFrame ==
    [][\A d \in Deleters :
          DeleteStep(d) =>
              LET e == deleters'[d].email
                  name == TokenFileName(e)
              IN /\ deleters[d].pc # "checked" /\ e \in Emails /\ ~Exists(tokens, name) =>
                        deleters'[d].status = 404 /\ deleters'[d].pc = "done"
                 /\ deleters'[d].status \in {400, 404} => tokens' = tokens
                 /\ deleters[d].pc = "checked" /\ Exists(tokens, name) =>
                        /\ deleters'[d].status = 200
                        /\ ~Exists(tokens', name)
                        /\ Files(tokens') = {f \in Files(tokens) : f.name # name}
                        /\ Len(tokens') = Len(tokens) - 1
                 /\ deleters[d].pc # "checked" => tokens' = tokens
                 /\ Files(tokens') \subseteq Files(tokens)
                 /\ \A f \in Files(tokens) \ Files(tokens') : f.name = name]_vars

\* a delete request has removed one credential and left another in place
C7_Witness ==
    \E d \in Deleters :
        /\ deleters[d].pc = "done"
        /\ deleters[d].status = 200
        /\ ~Exists(tokens, TokenFileName(deleters[d].email))
        /\ tokens # <<>>

\* C8: every delete request that carries a JSON object is answered 200, 404 or
\* 400, with 400 exactly when the email field is missing or empty, in every
\* interleaving of concurrent delete requests; of two concurrent deletes of
\* the same email one gets 200 and the other 404.
C8_DeleteStatus ==
    \A d \in Deleters :
        deleters[d].pc = "done" /\ deleters[d].email # NoBody =>
            /\ deleters[d].status \in {200, 404, 400}
            /\ deleters[d].status = 400 <=> Falsy(deleters[d].email)

\* C9 (safety): the handler takes a result only from a finished task, and the
\* response is sent only when every submitted task has finished and its
\* result is in the response.
C9_NoEarlyReturn ==
    /\ \A i \in 1..Len(data) :
          /\ i <= Len(futures)
          /\ futures[i].st = "done"
          /\ data[i] = futures[i].outcome.val
    /\ callpc \in {"returned", "raised"} =>
          \A i \in 1..Len(futures) : futures[i].st = "done"
    /\ Answered => Len(data) = Len(futures) /\ Len(futures) = Len(token_paths)

\* C9: the safety part in every state, and once every task of a call has
\* finished the call returns.
C9_WaitsForAll ==
    /\ []C9_NoEarlyReturn
    /\ (callpc = "collect" /\ \A i \in 1..Len(futures) : futures[i].st = "done")
          ~> (callpc = "returned")

\* a call has returned the results of MaxAccounts finished tasks
C9_Witness ==
    /\ Answered
    /\ Len(futures) = MaxAccounts
    /\ \A i \in 1..Len(futures) : futures[i].st = "done"
    /\ Len(Accounts) = MaxAccounts

Queued(fs) == Cardinality({i \in 1..Len(fs) : fs[i].st = "queued"})

\* C10 (safety): the pool has as many workers as enumerated accounts, and
\* every queued task has an idle worker of its own: the busy workers and the
\* queued tasks together never exceed the pool.
C10_WorkerPerAccount ==
    futures # <<>> =>
        /\ max_workers = Len(token_paths)
        /\ Len(futures) = Len(token_paths)
        /\ Busy(futures) + Queued(futures) <= max_workers

\* C10: the safety part in every state, and every queued task is started
\* whatever its siblings do, also when those never finish.
C10_NoStarvation ==
    /\ []C10_WorkerPerAccount
    /\ \A i \in 1..MaxAccounts :
          (i <= Len(futures) /\ futures[i].st = "queued")
              ~> (i > Len(futures) \/ futures[i].st # "queued")

\* a task has finished while an older sibling is still in its remote calls
C10_Witness ==
    /\ Len(futures) >= 2
    /\ futures[1].st = "running"
    /\ futures[Len(futures)].st = "done"

\* C11: every entry without error, in both modes, has count equal to the
\* length of its messages list; in Latest mode that is the number of listed
\* messages whose detail fetch succeeded.
C11_CountIsLength ==
    Answered =>
        \A i \in 1..Len(Accounts) :
            ~IsError(Accounts[i]) =>
                /\ Accounts[i].count = Len(Accounts[i].messages)
                /\ mode = "latest" =>
                      LET inbox == provider[AccountOfPath(token_paths[i])].inbox
                      IN Accounts[i].count =
                            Cardinality({n \in 1..Len(inbox) : n <= max_per /\ inbox[n] # "fail"})

\* success entries of both modes over an inbox of MaxMsgs messages: a Latest
\* one that lost a message, or an Unread one with all of them
C11_Witness ==
    /\ Answered
    /\ ~IsError(Accounts[1])
    /\ Len(provider[AccountOfPath(token_paths[1])].inbox) = MaxMsgs
    /\ \/ mode = "latest" /\ Accounts[1].count = MaxMsgs - 1 /\ "warning" \in DOMAIN Accounts[1]
       \/ mode = "unread" /\ Accounts[1].count = MaxMsgs

\* C12: an aggregate request repeated with the same mode and limit, over an
\* unchanged tokens directory and unchanged provider answers, gets the
\* response it got the first time, whatever the order in which the tasks of
\* either call complete.
C12_Idempotent ==
    callpc \in {"returned", "raised"} /\ previous # NoPrevious =>
        response = previous.response

\* a repeated request over MaxAccounts accounts has been answered
C12_Witness ==
    /\ Answered
    /\ previous # NoPrevious
    /\ Len(Accounts) = MaxAccounts
    /\ \E i, j \in 1..Len(Accounts) : IsError(Accounts[i]) /\ ~IsError(Accounts[j])

\* C13: the account set of a call is fixed at its enumeration step.  The
\* enumeration takes exactly the files the directory holds at that step; the
\* paths do not change afterwards; a task that finds its file gone ends with
\* an error entry under the file's name, not with an exception; the response
\* has one entry per enumerated path, whatever the directory holds by then.
\* Every call enumerates anew, so a file enrolled later is in the next call.
C13_AccountSetFixed ==
    [][/\ callpc = "glob" /\ callpc' # "glob" =>
             /\ Len(token_paths') = Len(tokens)
             /\ \A i \in 1..Len(tokens) : Basename(token_paths'[i]) = tokens[i].name
       /\ callpc = "collect" => callpc' \in {"collect", "returned"} /\ token_paths' = token_paths
       /\ \A i \in 1..Len(futures) :
             /\ i <= Len(futures')
             /\ futures[i].st = "running"
             /\ futures'[i].st = "done"
             /\ ~Exists(tokens, Basename(token_paths[i]))
             => /\ ~futures'[i].outcome.raised
                /\ IsError(futures'[i].outcome.val)
                /\ futures'[i].outcome.val.email = Basename(token_paths[i])
                /\ futures'[i].outcome.val.messages = <<>>
       /\ callpc = "collect" /\ callpc' = "returned" =>
             /\ response'.status = 200
             /\ Len(response'.body.accounts) = Len(token_paths)
             /\ \A i \in 1..Len(token_paths) :
                   EntryIsFor(response'.body.accounts[i], token_paths[i])]_vars

\* a response with an error entry for a credential deleted after the
\* enumeration and without entry for a credential enrolled after it
C13_Witness ==
    /\ Answered
    /\ \E i \in 1..Len(Accounts) :
          /\ IsError(Accounts[i])
          /\ Accounts[i].error = "FileNotFoundError"
          /\ ~Exists(tokens, Basename(token_paths[i]))
    /\ \E k \in 1..Len(tokens) :
          \A i \in 1..Len(token_paths) : Basename(token_paths[i]) # tokens[k].name

\* C14: the entries are in the order of enumeration and submission: the i-th
\* result the handler takes, and the i-th entry of the response, is that of
\* the i-th enumerated path, whichever tasks have completed by then.
C14_SubmissionOrder ==
    /\ \A i \in 1..Len(data) :
          i <= Len(token_paths) /\ EntryIsFor(data[i], token_paths[i])
    /\ Answered => Accounts = data /\ Len(data) = Len(token_paths)

\* the last task has completed before the first, and the handler has taken
\* no result yet: it waits for the first
C14_Witness ==
    /\ callpc = "collect"
    /\ Len(futures) >= 2
    /\ futures[1].st = "running"
    /\ futures[Len(futures)].st = "done"
    /\ data = <<>>

\* no two files of the listing have the same name, and each holds the
\* credential of the account it is named after
OneCredentialPerEmail ==
    /\ \A i, j \in 1..Len(tokens) : i # j => tokens[i].name # tokens[j].name
    /\ \A i \in 1..Len(tokens) :
          /\ tokens[i].cred \in Emails
          /\ tokens[i].name = tokens[i].cred \o ".json"

\* C15: after any sequence of enrollments and deletions the directory holds
\* at most one credential per email; a step that adds a file adds exactly the
\* file of one email that had none, every other file staying in place and in
\* order, and no step other than a removal changes a file that is there.
C15_UniqueCredential ==
    /\ []OneCredentialPerEmail
    /\ [][Len(tokens') >= Len(tokens) /\ tokens' # tokens =>
             /\ Len(tokens') = Len(tokens) + 1
             /\ \E p \in 1..Len(tokens') :
                   /\ ~Exists(tokens, tokens'[p].name)
                   /\ tokens'[p].name = tokens'[p].cred \o ".json"
                   /\ tokens = SubSeq(tokens', 1, p - 1) \o SubSeq(tokens', p + 1, Len(tokens'))]_vars

\* an account deleted by a request is enrolled again, and every account is
\* enrolled
C15_Witness ==
    /\ Len(tokens) = MaxAccounts
    /\ \E d \in Deleters :
          /\ deleters[d].pc = "done"
          /\ deleters[d].status = 200
          /\ Exists(tokens, TokenFileName(deleters[d].email))

\* the four fields of a message the provider answers in full / without
\* payload and snippet
FullSummary(id) ==
    [from |-> "From " \o ToString(id),
     subject |-> "Subject " \o ToString(id),
     date |-> "Date " \o ToString(id),
     snippet |-> "Snippet " \o ToString(id)]

EmptySummary == [from |-> "", subject |-> "", date |-> "", snippet |-> ""]

\* the summaries of the messages 1..k of an inbox whose detail fetch works,
\* in list order
RECURSIVE Survivors(_, _)
Survivors(inbox, k) ==
    IF k = 0 THEN <<>>
    ELSE Survivors(inbox, k - 1) \o
            (IF inbox[k] = "fail" THEN <<>>
             ELSE IF inbox[k] = "full" THEN <<FullSummary(k)>>
             ELSE <<EmptySummary>>)

\* C16: in Latest mode the messages of a success entry are the listed
\* messages without those whose detail fetch failed, in list order, each once,
\* each projected to from, subject, date and snippet, an absent header or
\* snippet giving the empty string.
C16_LatestProjection ==
    Answered /\ mode = "latest" =>
        \A i \in 1..Len(Accounts) :
            ~IsError(Accounts[i]) =>
                LET inbox == provider[AccountOfPath(token_paths[i])].inbox
                IN /\ Accounts[i].messages = Survivors(inbox, Min(max_per, Len(inbox)))
                   /\ \A n \in 1..Len(Accounts[i].messages) :
                         DOMAIN Accounts[i].messages[n] = {"from", "subject", "date", "snippet"}

\* a Latest entry over the inbox <<full, fail, bare>>: two messages, the
\* first with its headers and the second with empty fields
C16_Witness ==
    /\ Answered
    /\ mode = "latest"
    /\ ~IsError(Accounts[1])
    /\ Len(provider[AccountOfPath(token_paths[1])].inbox) >= 3
    /\ provider[AccountOfPath(token_paths[1])].inbox[2] = "fail"
    /\ Len(Accounts[1].messages) = 2
    /\ Accounts[1].messages[1].from = "From 1"
    /\ Accounts[1].messages[2] = [from |-> "", subject |-> "", date |-> "", snippet |-> ""]

\* a step of the aggregate handler or of one of its tasks
AggregateStep == <<callpc, mode, args, max_per, token_paths, max_workers, futures, data, response>>'
                    # <<callpc, mode, args, max_per, token_paths, max_workers, futures, data, response>>

\* C17: no step of an aggregate call or of its tasks changes the tokens
\* directory; the directory changes only in a step of delete_user that
\* removes a file or in a step of the OAuth callback that writes one.
C17_AggregateReadsOnly ==
    [][/\ AggregateStep => tokens' = tokens
       /\ tokens' # tokens =>
             \/ /\ \E d \in Deleters : deleters[d].pc = "checked" /\ deleters'[d].status = 200
                /\ Len(tokens') = Len(tokens) - 1
             \/ /\ deleters' = deleters
                /\ Len(tokens') = Len(tokens) + 1]_vars

\* a call that had a failing account has been answered and the directory
\* still holds exactly the files it enumerated
C17_Witness ==
    /\ Answered
    /\ token_paths = Glob(tokens)
    /\ \E i \in 1..Len(Accounts) : IsError(Accounts[i])
    /\ \E i \in 1..Len(Accounts) : ~IsError(Accounts[i])

====
